---- MODULE Spec2Model ----
(***************************************************************************)
(* Snake on an ST7789 display: the game engine of src/src/game.rs (Point,  *)
(* Vector, Snake, Food, Game) and the two-rate main loop of                *)
(* src/src/main.rs.                                                        *)
(*                                                                         *)
(* Five specifications share the same state and the same operations:       *)
(*   Spec       the program: main()'s loop on the 24x24 board              *)
(*   SpecApi    Game::new followed by any sequence of slow_update and      *)
(*              fast_update calls                                          *)
(*   SpecGame   a Game assembled from Snake::new at a chosen cell and a    *)
(*              food map of fresh Food::new entries, followed by any       *)
(*              sequence of slow_update and fast_update calls              *)
(*   SpecGrow   Game::new on the 13x6 board with a joystick that is only   *)
(*              ever pushed Down                                           *)
(*   SpecConfig Game::new with num_food set to any target from 1 to 8      *)
(***************************************************************************)
EXTENDS Integers, Sequences, FiniteSets, TLC

(***************************************************************************)
(* Bounds of the exploration (not program constants).                      *)
(***************************************************************************)
\* slow_update calls explored per run of SpecGame
MaxTicks == 4
\* slow_update calls explored per run of SpecApi
MaxApiTicks == 10
\* iterations of main()'s loop explored per run of Spec
MaxLoops == 11
\* largest number of food entries placed ahead of the snake in SpecGame
MaxInitFood == 4
\* slow_update calls explored per run of SpecGrow
MaxGrowTicks == 476

(***************************************************************************)
(* Program constants.                                                      *)
(***************************************************************************)
GAME_WIDTH_PIXELS == 240
GAME_HEIGHT_PIXELS == 240
PIXEL_WIDTH == 10
SLOW_UPDATES_PER_SECOND == 2
FAST_UPDATES_PER_SECOND == 100
\* capacity of Game.food: heapless::FnvIndexMap<Point, Food, 8>
FoodCapacity == 8
\* Game::new: num_food: 1
InitialNumFood == 1
\* slow_update: self.snake.get_head().y < 5
SpawnGuardRow == 5
\* slow_update: self.snake.length() < 5
SpawnGuardLength == 5
\* slow_update: Point::new(12, 5)
SpawnX == 12
SpawnY == 5

VARIABLES
    width,       \* const GAME_WIDTH of Game / Snake
    height,      \* const GAME_HEIGHT of Game / Snake
    points,      \* Snake.points, front of the deque first
    old_tail,    \* Snake.old_tail: <<>> is None, <<p>> is Some(p)
    direction,   \* Snake.direction
    food,        \* Game.food: Point -> Food
    num_food,    \* Game.num_food
    display,     \* the display, cell by cell: the cells that are not black
    fault,       \* "none", "panic" (an unwrap failed) or "hang" (a loop that never exits)
    pc,          \* main(): the call the loop makes next
    fast_i,      \* main(): fast_update calls made by the current for loop
    ticks,       \* history: number of slow_update calls made
    lastMove,    \* history: the direction the snake moved in the last slow_update
    lastCall,    \* history: the last call main() made on the game
    fastSince    \* history: fast_update calls main() made since the last slow_update

gameVars == <<width, height, points, old_tail, direction, food, num_food, fault>>
mainVars == <<pc, fast_i, lastCall, fastSince, display>>
histVars == <<ticks, lastMove>>
vars == <<width, height, points, old_tail, direction, food, num_food, display,
          fault, pc, fast_i, ticks, lastMove, lastCall, fastSince>>

(***************************************************************************)
(* Geometry: Point, Vector, Direction.                                     *)
(***************************************************************************)
Direction == {"Up", "Right", "Down", "Left"}

\* What GameInputs::get_joystick_direction can return: None or Some(direction)
JoystickSamples == Direction \cup {"None"}

Point(x, y) == [x |-> x, y |-> y]

Vector(dx, dy) == [dx |-> dx, dy |-> dy]

\* Vector::opposite
opposite(v) == Vector(v.dx * (-1), v.dy * (-1))

\* impl Into<Vector> for Direction
IntoVector(d) ==
    CASE d = "Up"    -> Vector(0, -1)
      [] d = "Down"  -> Vector(0, 1)
      [] d = "Left"  -> Vector(-1, 0)
      [] d = "Right" -> Vector(1, 0)

\* i16::rem_euclid with a positive divisor: the remainder in 0 .. b-1
rem_euclid(a, b) == a % b

\* the `as u8` cast of an i16
AsU8(a) == a % 256

\* the remainder of Rust's % operator, which takes the sign of the dividend
RemTruncated(a, b) == IF a < 0 THEN 0 - ((0 - a) % b) ELSE a % b

add_with_wraparound_truncated(point, delta, w, h) ==
    Point(AsU8(RemTruncated(point.x + delta.dx, w)),
          AsU8(RemTruncated(point.y + delta.dy, h)))

add_with_wraparound_clamped(point, delta, w, h) ==
    LET x == point.x + delta.dx
        y == point.y + delta.dy
        clamp(v, n) == IF v < 0 THEN 0 ELSE IF v > n - 1 THEN n - 1 ELSE v
    IN  Point(AsU8(clamp(x, w)), AsU8(clamp(y, h)))

\* Snake::_add_with_wraparound
add_with_wraparound(point, delta, w, h) ==
    LET x == point.x + delta.dx
        y == point.y + delta.dy
    IN  Point(AsU8(rem_euclid(x, w)), AsU8(rem_euclid(y, h)))

(***************************************************************************)
(* Food: a cyclic iterator over COLOURS and the colour last taken from it. *)
(* `advances` is a history field: the number of Food::update calls made on *)
(* the entry since Food::new.                                              *)
(***************************************************************************)
COLOURS == <<"WHITE", "RED">>

\* Cycle<Iter>::next: pos is the number of items the inner slice iterator has
\* yielded; when it is exhausted the cycle restarts it from the original
CycleNext(pos) ==
    IF pos = Len(COLOURS)
        THEN [item |-> COLOURS[1], pos |-> 1]
        ELSE [item |-> COLOURS[pos + 1], pos |-> pos + 1]

\* Food::new
FoodNew ==
    LET n == CycleNext(0)
    IN  [pos |-> n.pos, next_colour |-> n.item, advances |-> 0]

FoodUpdateNoCycle(f) ==
    IF f.pos = Len(COLOURS)
        THEN [pos |-> f.pos, next_colour |-> f.next_colour, advances |-> f.advances + 1]
        ELSE [pos |-> f.pos + 1, next_colour |-> COLOURS[f.pos + 1],
              advances |-> f.advances + 1]

\* Food::update
FoodUpdate(f) ==
    LET n == CycleNext(f.pos)
    IN  [pos |-> n.pos, next_colour |-> n.item, advances |-> f.advances + 1]

(***************************************************************************)
(* Snake.                                                                  *)
(***************************************************************************)
SNAKE_COLOUR == "GREEN"

Restrict(f, S) == [k \in S |-> f[k]]

\* capacity of Snake.points: GAME_WIDTH as usize * GAME_HEIGHT as usize
DequeCapacity(w, h) == w * h

\* Snake::new
SnakeNew(initial_point, initial_direction) ==
    [points |-> <<initial_point>>, direction |-> initial_direction, old_tail |-> <<>>]

\* Snake::get_head on a non-empty body
get_head(pts) == pts[1]

\* Snake::length
length(pts) == Len(pts)

\* push_front placed inside the branch that eats
SnakeUpdatePushWhenEating(pts, tail, dir, fd, w, h) ==
    IF pts = <<>>
        THEN [points |-> pts, old_tail |-> tail, food |-> fd, panic |-> FALSE,
              moved |-> FALSE]
        ELSE
            LET new_head == add_with_wraparound(pts[1], IntoVector(dir), w, h)
                ate_food == new_head \in DOMAIN fd
                full == ate_food /\ Len(pts) = DequeCapacity(w, h)
            IN  [points |-> IF ate_food /\ ~full THEN <<new_head>> \o pts
                            ELSE IF ate_food THEN pts
                            ELSE SubSeq(pts, 1, Len(pts) - 1),
                 old_tail |-> IF ate_food THEN tail ELSE <<pts[Len(pts)]>>,
                 food |-> Restrict(fd, DOMAIN fd \ {new_head}),
                 panic |-> full, moved |-> TRUE]

SnakeUpdateAlwaysPop(pts, tail, dir, fd, w, h) ==
    IF pts = <<>>
        THEN [points |-> pts, old_tail |-> tail, food |-> fd, panic |-> FALSE,
              moved |-> FALSE]
        ELSE
            LET new_head == add_with_wraparound(pts[1], IntoVector(dir), w, h)
                popped == SubSeq(pts, 1, Len(pts) - 1)
            IN  [points |-> <<new_head>> \o popped,
                 old_tail |-> IF new_head \in DOMAIN fd THEN tail ELSE <<pts[Len(pts)]>>,
                 food |-> Restrict(fd, DOMAIN fd \ {new_head}),
                 panic |-> FALSE, moved |-> TRUE]

SnakeUpdateTailIsHead(pts, tail, dir, fd, w, h) ==
    IF pts = <<>>
        THEN [points |-> pts, old_tail |-> tail, food |-> fd, panic |-> FALSE,
              moved |-> FALSE]
        ELSE
            LET new_head == add_with_wraparound(pts[1], IntoVector(dir), w, h)
                ate_food == new_head \in DOMAIN fd
                popped == IF ate_food THEN pts ELSE SubSeq(pts, 1, Len(pts) - 1)
                full == Len(popped) = DequeCapacity(w, h)
            IN  [points |-> IF full THEN popped ELSE <<new_head>> \o popped,
                 old_tail |-> IF ate_food THEN tail ELSE <<pts[1]>>,
                 food |-> Restrict(fd, DOMAIN fd \ {new_head}),
                 panic |-> full, moved |-> TRUE]

\* Snake::update. `panic` is the unwrap of push_front on a full deque; the
\* body is then left as it was before the push
SnakeUpdate(pts, tail, dir, fd, w, h) ==
    IF pts = <<>>
        THEN [points |-> pts, old_tail |-> tail, food |-> fd, panic |-> FALSE,
              moved |-> FALSE]
        ELSE
            LET old_head == pts[1]
                direction_delta == IntoVector(dir)
                new_head == add_with_wraparound(old_head, direction_delta, w, h)
                ate_food == new_head \in DOMAIN fd
                fd2 == Restrict(fd, DOMAIN fd \ {new_head})
                popped == IF ate_food THEN pts ELSE SubSeq(pts, 1, Len(pts) - 1)
                tail2 == IF ate_food THEN tail ELSE <<pts[Len(pts)]>>
                full == Len(popped) = DequeCapacity(w, h)
            IN  [points |-> IF full THEN popped ELSE <<new_head>> \o popped,
                 old_tail |-> tail2, food |-> fd2, panic |-> full, moved |-> TRUE]

(***************************************************************************)
(* Game.                                                                   *)
(***************************************************************************)
\* slow_update: the candidate point of every spawn
SpawnPoint == Point(SpawnX, SpawnY)

SpawnWithheldEither(pts) ==
    get_head(pts).y < SpawnGuardRow \/ length(pts) < SpawnGuardLength

\* slow_update: the guard that withholds spawning
SpawnWithheld(pts) ==
    get_head(pts).y < SpawnGuardRow /\ length(pts) < SpawnGuardLength

\* a do-while form of the loop that spawns in the head's column
SpawnFoodDoWhile(fd, pts, n) ==
    IF pts = <<>> \/ SpawnWithheld(pts)
        THEN [food |-> fd, fault |-> "none"]
    ELSE IF Cardinality(DOMAIN fd \cup {Point(get_head(pts).x, SpawnY)}) > FoodCapacity
        THEN [food |-> fd, fault |-> "panic"]
    ELSE [food |-> [p \in DOMAIN fd \cup {Point(get_head(pts).x, SpawnY)} |->
                        IF p \in DOMAIN fd THEN fd[p] ELSE FoodNew],
          fault |-> "none"]

\* slow_update: the while loop. Its body is deterministic in the food map, so
\* an iteration that leaves the map's size unchanged repeats forever ("hang").
\* FnvIndexMap::insert replaces the value of a key that is present and fails
\* on a new key when the map is full.
RECURSIVE SpawnFood(_, _, _)
SpawnFood(fd, pts, n) ==
    IF ~(Cardinality(DOMAIN fd) < n)
        THEN [food |-> fd, fault |-> "none"]
    ELSE IF pts = <<>>
        THEN [food |-> fd, fault |-> "panic"]
    ELSE IF SpawnWithheld(pts)
        THEN [food |-> fd, fault |-> "none"]
    ELSE IF SpawnPoint \in DOMAIN fd
        THEN [food |-> [fd EXCEPT ![SpawnPoint] = FoodNew], fault |-> "hang"]
    ELSE IF Cardinality(DOMAIN fd) = FoodCapacity
        THEN [food |-> fd, fault |-> "panic"]
    ELSE SpawnFood([p \in DOMAIN fd \cup {SpawnPoint} |->
                        IF p = SpawnPoint THEN FoodNew ELSE fd[p]], pts, n)

\* slow_update: for food in self.food.values_mut() { food.update() }
AnimateFood(fd) == [p \in DOMAIN fd |-> FoodUpdate(fd[p])]

NextDirectionUnguarded(dir, sample) ==
    IF sample # "None" THEN sample ELSE dir

\* fast_update: the heading after one joystick sample
NextDirection(dir, sample) ==
    IF sample # "None" /\ opposite(IntoVector(sample)) # IntoVector(dir)
        THEN sample
        ELSE dir

\* Game::new
GameNew(w, h) ==
    [snake |-> SnakeNew(Point(w \div 2, h \div 2), "Right"),
     food |-> [p \in {} |-> FoodNew],
     num_food |-> InitialNumFood]

\* Game::slow_update
slow_update ==
    /\ fault = "none"
    /\ LET s == SnakeUpdate(points, old_tail, direction, food, width, height)
           r == IF s.panic THEN [food |-> s.food, fault |-> "panic"]
                           ELSE SpawnFood(s.food, s.points, num_food)
       IN  /\ points' = s.points
           /\ old_tail' = s.old_tail
           /\ food' = IF r.fault = "none" THEN AnimateFood(r.food) ELSE r.food
           /\ fault' = r.fault
           /\ lastMove' = IF s.moved THEN direction ELSE lastMove
    /\ ticks' = ticks + 1
    /\ UNCHANGED <<width, height, direction, num_food>>

\* a fast_update that also forgets the vacated tail cell
fast_update_clearing_tail(sample) ==
    /\ fault = "none"
    /\ direction' = NextDirection(direction, sample)
    /\ old_tail' = <<>>
    /\ UNCHANGED <<width, height, points, food, num_food, fault, ticks, lastMove>>

\* Game::fast_update, the joystick returning `sample`
fast_update(sample) ==
    /\ fault = "none"
    /\ direction' = NextDirection(direction, sample)
    /\ UNCHANGED <<width, height, points, old_tail, food, num_food, fault, ticks, lastMove>>

\* _render_point at the scale of cells: a black fill leaves the cell unlit
Paint(d, p, colour) ==
    IF colour = "BLACK"
        THEN Restrict(d, DOMAIN d \ {p})
        ELSE [q \in DOMAIN d \cup {p} |-> IF q = p THEN colour ELSE d[q]]

\* Game::render: for (point, food) in self.food.iter() { food.render(..) }
\* (the keys are distinct cells, so the iteration order does not matter)
RenderFood(d, fd) ==
    [q \in DOMAIN d \cup DOMAIN fd |-> IF q \in DOMAIN fd THEN fd[q].next_colour ELSE d[q]]

\* the body drawn first and old_tail blanked after it
SnakeRenderEraseLast(d, pts, tail) ==
    LET body == {pts[k] : k \in 1..Len(pts)}
        drawn == [q \in DOMAIN d \cup body |-> IF q \in body THEN SNAKE_COLOUR ELSE d[q]]
    IN  IF tail # <<>> THEN Paint(drawn, tail[1], "BLACK") ELSE drawn

\* old_tail never blanked
SnakeRenderNoErase(d, pts, tail) ==
    LET body == {pts[k] : k \in 1..Len(pts)}
    IN  [q \in DOMAIN d \cup body |-> IF q \in body THEN SNAKE_COLOUR ELSE d[q]]

\* Snake::render
SnakeRender(d, pts, tail) ==
    LET erased == IF tail # <<>> THEN Paint(d, tail[1], "BLACK") ELSE d
        body == {pts[k] : k \in 1..Len(pts)}
    IN  [q \in DOMAIN erased \cup body |-> IF q \in body THEN SNAKE_COLOUR ELSE erased[q]]

\* Game::render
render ==
    /\ fault = "none"
    /\ display' = SnakeRender(RenderFood(display, food), points, old_tail)
    /\ UNCHANGED <<width, height, points, old_tail, direction, food, num_food, fault,
                   ticks, lastMove>>

(***************************************************************************)
(* main(): loop { slow_update; render; for _ in 0..N { fast_update } }     *)
(***************************************************************************)
FastUpdatesPerLoopInclusive ==
    (FAST_UPDATES_PER_SECOND \div SLOW_UPDATES_PER_SECOND) + 1

\* the length of the range 0..(FAST_UPDATES_PER_SECOND / SLOW_UPDATES_PER_SECOND)
FastUpdatesPerLoop == FAST_UPDATES_PER_SECOND \div SLOW_UPDATES_PER_SECOND

MainSlowUpdate ==
    /\ pc = "slow_update"
    /\ ticks < MaxLoops
    /\ slow_update
    /\ pc' = "render"
    /\ lastCall' = "slow_update"
    /\ fastSince' = 0
    /\ UNCHANGED <<fast_i, display>>

MainRender ==
    /\ pc = "render"
    /\ render
    /\ fast_i' = 0
    /\ pc' = IF 0 < FastUpdatesPerLoop THEN "fast_update" ELSE "slow_update"
    /\ lastCall' = "render"
    /\ UNCHANGED fastSince

MainFastUpdate ==
    /\ pc = "fast_update"
    /\ \E sample \in JoystickSamples : fast_update(sample)
    /\ fast_i' = fast_i + 1
    /\ pc' = IF fast_i + 1 < FastUpdatesPerLoop THEN "fast_update" ELSE "slow_update"
    /\ lastCall' = "fast_update"
    /\ fastSince' = fastSince + 1
    /\ UNCHANGED display

InitGameState(w, h, snake, fd, n) ==
    /\ width = w
    /\ height = h
    /\ points = snake.points
    /\ old_tail = snake.old_tail
    /\ direction = snake.direction
    /\ food = fd
    /\ num_food = n
    /\ fault = "none"
    /\ display = [p \in {} |-> "BLACK"]
    /\ pc = "slow_update"
    /\ fast_i = 0
    /\ ticks = 0
    /\ lastMove = "None"
    /\ lastCall = "none"
    /\ fastSince = 0

\* main(): display.clear(BLACK), then Game::<240/10, 240/10, 10>::new
Init ==
    LET w == GAME_WIDTH_PIXELS \div PIXEL_WIDTH
        h == GAME_HEIGHT_PIXELS \div PIXEL_WIDTH
        g == GameNew(w, h)
    IN  InitGameState(w, h, g.snake, g.food, g.num_food)

Next == MainSlowUpdate \/ MainRender \/ MainFastUpdate

Spec == Init /\ [][Next]_vars

(***************************************************************************)
(* Game::new on a board, then any sequence of slow_update and fast_update. *)
(***************************************************************************)
\* the boards explored: <<GAME_WIDTH, GAME_HEIGHT>>
Boards == {<<5, 5>>, <<24, 24>>}

ApiSlowUpdate ==
    /\ ticks < MaxApiTicks
    /\ slow_update
    /\ UNCHANGED mainVars

ApiFastUpdate ==
    /\ \E sample \in JoystickSamples : fast_update(sample)
    /\ UNCHANGED mainVars

InitApi ==
    \E b \in Boards :
        LET g == GameNew(b[1], b[2])
        IN  InitGameState(b[1], b[2], g.snake, g.food, g.num_food)

NextApi == ApiSlowUpdate \/ ApiFastUpdate

SpecApi == InitApi /\ [][NextApi]_vars

(***************************************************************************)
(* A Game assembled as a test would: Snake::new on a corner, the middle of *)
(* an edge or the centre of the board, any heading, and fresh Food::new    *)
(* entries on cells ahead of the head; then any sequence of slow_update    *)
(* and fast_update.                                                        *)
(***************************************************************************)
InitHeads(w, h) == {Point(x, y) : x \in {0, w \div 2, w - 1}, y \in {0, h \div 2, h - 1}}

\* the distances ahead of the head at which food is placed
FoodLayouts == {1..k : k \in 0..MaxInitFood} \cup {{2}}

\* the cell k steps from p in direction d on the torus
Ahead(p, d, k, w, h) ==
    LET v == IntoVector(d)
    IN  Point((p.x + k * v.dx) % w, (p.y + k * v.dy) % h)

GameSlowUpdate ==
    /\ ticks < MaxTicks
    /\ slow_update
    /\ UNCHANGED mainVars

GameFastUpdate ==
    /\ \E sample \in JoystickSamples : fast_update(sample)
    /\ UNCHANGED mainVars

InitGame ==
    \E b \in Boards :
        \E p \in InitHeads(b[1], b[2]), d \in Direction, layout \in FoodLayouts :
            LET cells == {Ahead(p, d, k, b[1], b[2]) : k \in layout}
            IN  InitGameState(b[1], b[2], SnakeNew(p, d),
                              [c \in cells |-> FoodNew], InitialNumFood)

NextGame == GameSlowUpdate \/ GameFastUpdate

SpecGame == InitGame /\ [][NextGame]_vars

(***************************************************************************)
(* Game::new on the smallest board that contains the spawn point (12, 5),  *)
(* played by someone who only ever pushes the joystick Down: the snake     *)
(* runs Right along its row, or turns Down once and circles a column.      *)
(***************************************************************************)
GrowBoard == <<SpawnX + 1, SpawnY + 1>>

GrowSamples == {"None", "Down"}

GrowSlowUpdate ==
    /\ ticks < MaxGrowTicks
    /\ slow_update
    /\ UNCHANGED mainVars

GrowFastUpdate ==
    /\ \E sample \in GrowSamples : fast_update(sample)
    /\ UNCHANGED mainVars

InitGrow ==
    LET g == GameNew(GrowBoard[1], GrowBoard[2])
    IN  InitGameState(GrowBoard[1], GrowBoard[2], g.snake, g.food, g.num_food)

NextGrow == GrowSlowUpdate \/ GrowFastUpdate

SpecGrow == InitGrow /\ [][NextGrow]_vars

(***************************************************************************)
(* Game::new with the field num_food ("the number of food items to         *)
(* maintain on the board") set to any target the food map can hold, then   *)
(* any sequence of slow_update and fast_update.                            *)
(***************************************************************************)
NumFoodTargets == 1..FoodCapacity

ConfigSlowUpdate ==
    /\ ticks < MaxApiTicks
    /\ slow_update
    /\ UNCHANGED mainVars

ConfigFastUpdate ==
    /\ \E sample \in JoystickSamples : fast_update(sample)
    /\ UNCHANGED mainVars

InitConfig ==
    \E b \in Boards, n \in NumFoodTargets :
        LET g == GameNew(b[1], b[2])
        IN  InitGameState(b[1], b[2], g.snake, g.food, n)

NextConfig == ConfigSlowUpdate \/ ConfigFastUpdate

SpecConfig == InitConfig /\ [][NextConfig]_vars

(***************************************************************************)
(* Properties.  The expectations below are written out case by case and    *)
(* use none of the operators of the model above except where a property    *)
(* is about that operator's result.                                        *)
(***************************************************************************)
OppositeOf(d) ==
    CASE d = "Up"    -> "Down"
      [] d = "Down"  -> "Up"
      [] d = "Left"  -> "Right"
      [] d = "Right" -> "Left"

\* the cell one step from p in direction d on the width x height torus
Stepped(p, d) ==
    CASE d = "Left"  -> [x |-> IF p.x = 0 THEN width - 1 ELSE p.x - 1, y |-> p.y]
      [] d = "Right" -> [x |-> IF p.x = width - 1 THEN 0 ELSE p.x + 1, y |-> p.y]
      [] d = "Up"    -> [x |-> p.x, y |-> IF p.y = 0 THEN height - 1 ELSE p.y - 1]
      [] d = "Down"  -> [x |-> p.x, y |-> IF p.y = height - 1 THEN 0 ELSE p.y + 1]

\* the cell in front of the head
FrontCell == Stepped(points[1], direction)

\* the step is a slow_update call
IsSlowUpdate == ticks' = ticks + 1

\* C1: in the main loop, the direction the snake moves in a slow_update is
\* never the exact opposite of the direction it moved in the slow_update
\* before it, whatever the joystick samples of the fast_update calls between
C1_NoReversalBetweenSlowUpdates ==
    [][(IsSlowUpdate /\ lastMove # "None") => lastMove' # OppositeOf(lastMove)]_vars

\* C2: when the wrapped cell in front of the head is a key of the food map,
\* Snake::update returns a body one longer whose head is that cell and whose
\* rest is the previous body in order, a food map without that key, and the
\* old_tail it was given
C2_GrowthOnConsumption ==
    (points # <<>> /\ FrontCell \in DOMAIN food) =>
        LET r == SnakeUpdate(points, old_tail, direction, food, width, height)
        IN  /\ Len(r.points) = Len(points) + 1
            /\ r.points[1] = FrontCell
            /\ SubSeq(r.points, 2, Len(r.points)) = points
            /\ DOMAIN r.food = DOMAIN food \ {FrontCell}
            /\ FrontCell \notin DOMAIN r.food
            /\ \A p \in DOMAIN r.food : r.food[p] = food[p]
            /\ r.old_tail = old_tail

\* a snake that has grown by eating in some slow_update
C2_Witness == ticks >= 1 /\ Len(points) >= 2 /\ fault = "none"

\* C3: when the wrapped cell in front of the head is not a key of the food
\* map, Snake::update returns a body of the same length whose head is that
\* cell, old_tail = the last body cell before the call, and the same food map
C3_NoGrowthWithoutConsumption ==
    (points # <<>> /\ FrontCell \notin DOMAIN food) =>
        LET r == SnakeUpdate(points, old_tail, direction, food, width, height)
        IN  /\ Len(r.points) = Len(points)
            /\ r.points[1] = FrontCell
            /\ SubSeq(r.points, 2, Len(r.points)) = SubSeq(points, 1, Len(points) - 1)
            /\ r.old_tail = <<points[Len(points)]>>
            /\ r.food = food

\* a snake of length >= 2 that has moved without eating: old_tail is the cell
\* its tail has just left, one step behind the present last cell
C3_Witness ==
    /\ ticks >= 2
    /\ Len(points) >= 2
    /\ old_tail # <<>>
    /\ \E d \in Direction : Stepped(old_tail[1], d) = points[Len(points)]
    /\ lastMove # "None"
    /\ points[1] = Stepped(points[2], lastMove)

\* C4: for the head of every reachable snake and each of the four
\* directions, _add_with_wraparound gives ((x+dx) mod width, (y+dy) mod
\* height): a cell of the board, and from an edge the cell of the opposite edge
C4_Wraparound ==
    points # <<>> =>
        \A d \in Direction :
            LET q == add_with_wraparound(points[1], IntoVector(d), width, height)
            IN  /\ q.x \in 0..(width - 1)
                /\ q.y \in 0..(height - 1)
                /\ q = Stepped(points[1], d)

\* the snake has stepped Left off x = 0 on the 24-wide board and stands on x = 23
C4_Witness ==
    /\ width = 24
    /\ ticks >= 1
    /\ lastMove = "Left"
    /\ points[1].x = 23
    /\ old_tail = <<[x |-> 0, y |-> points[1].y]>>

\* C5: one fast_update with heading h and joystick sample d leaves the
\* heading h when there is no sample or d is the opposite of h, and makes
\* it d for every other d
C5_ReversalGuard ==
    [][\A sample \in JoystickSamples :
          fast_update(sample) =>
              direction' = IF sample = "None" \/ sample = OppositeOf(direction)
                               THEN direction
                               ELSE sample]_vars

\* Game::new heads Right; before any move a perpendicular sample was accepted
C5_Witness == ticks = 0 /\ direction = "Up" /\ points = <<[x |-> 12, y |-> 12]>>

\* C6: in slow_update, when the food count after the snake has moved is
\* below num_food (= 1): nothing is inserted if the head's row is < 5 and the
\* length is < 5; otherwise exactly one entry is inserted, at (12, 5), and
\* the count is num_food at the end of the call
C6_SpawnGuard ==
    [][(IsSlowUpdate /\ points # <<>>) =>
          LET keysAfterMove == DOMAIN food \ {FrontCell}
          IN  Cardinality(keysAfterMove) < num_food =>
                  IF points'[1].y < 5 /\ Len(points') < 5
                      THEN DOMAIN food' = keysAfterMove
                      ELSE /\ [x |-> 12, y |-> 5] \notin keysAfterMove
                           /\ DOMAIN food' = keysAfterMove \cup {[x |-> 12, y |-> 5]}
                           /\ Cardinality(DOMAIN food') = num_food
                           /\ num_food = 1]_vars

\* a snake of length >= 5 whose head is on a row < 5 and for which the food
\* at (12, 5) was inserted by the slow_update just made
C6_Witness ==
    /\ ticks >= 1
    /\ Len(points) >= 5
    /\ points[1].y < 5
    /\ DOMAIN food = {[x |-> 12, y |-> 5]}
    /\ food[[x |-> 12, y |-> 5]].advances = 1

\* C7: from Game::new, after any sequence of slow_update and fast_update
\* calls, the number of food entries is at most num_food, hence below the
\* capacity 8 of the map, and no insert has failed
C7_FoodCountBounded ==
    /\ Cardinality(DOMAIN food) <= num_food
    /\ Cardinality(DOMAIN food) < 8
    /\ fault # "panic"

\* the snake has eaten the food and the food has been spawned again
C7_Witness ==
    Len(points) >= 2 /\ Cardinality(DOMAIN food) = num_food /\ num_food = 1

C8_S0 ==
    /\ width = 5 /\ height = 5
    /\ points = <<[x |-> 2, y |-> 2]>>
    /\ direction = "Right"
    /\ DOMAIN food = {[x |-> 4, y |-> 2]}
    /\ ticks = 0

C8_S1 ==
    /\ width = 5 /\ height = 5
    /\ points = <<[x |-> 3, y |-> 2]>>
    /\ DOMAIN food = {[x |-> 4, y |-> 2]}
    /\ ticks = 1

C8_S2 ==
    /\ width = 5 /\ height = 5
    /\ points = <<[x |-> 4, y |-> 2], [x |-> 3, y |-> 2]>>
    /\ DOMAIN food = {}
    /\ ticks = 2

C8_S3 ==
    /\ width = 5 /\ height = 5
    /\ points[1] = [x |-> 0, y |-> 2]
    /\ Len(points) = 2
    /\ ticks = 3

\* C8: on the 5x5 board, snake created at (2,2) heading Right, one food at
\* (4,2): three slow_update calls made while the heading is Right put the
\* head at (3,2) with length 1, then at (4,2) with the food gone and length
\* 2, then at (0,2) with length 2
C8_EndToEnd ==
    [][/\ (C8_S0 /\ IsSlowUpdate) => C8_S1'
       /\ (C8_S1 /\ direction = "Right" /\ IsSlowUpdate) => C8_S2'
       /\ (C8_S2 /\ direction = "Right" /\ IsSlowUpdate) => C8_S3']_vars

\* the end of the scenario: head wrapped to (0,2), body (4,2) behind it
C8_Witness ==
    /\ C8_S3
    /\ points = <<[x |-> 0, y |-> 2], [x |-> 4, y |-> 2]>>
    /\ old_tail = <<[x |-> 3, y |-> 2]>>
    /\ lastMove = "Right"
    /\ DOMAIN food = {}

\* C9: a Food made by Food::new and advanced k times by Food::update shows
\* white when k is even and red when k is odd
C9_FoodColourCycle ==
    \A p \in DOMAIN food :
        food[p].next_colour = IF food[p].advances % 2 = 0 THEN "WHITE" ELSE "RED"

\* a food advanced twice and white again
C9_Witness ==
    \E p \in DOMAIN food : food[p].advances = 2 /\ food[p].next_colour = "WHITE"

\* C10: in the main loop every slow_update is followed at once by render,
\* render is called only right after slow_update, render is followed by
\* fast_update calls only, and the next slow_update comes after exactly 50
\* of them
C10_StrictAlternation ==
    [][/\ lastCall = "slow_update" => lastCall' = "render"
       /\ lastCall' = "render" => lastCall = "slow_update"
       /\ lastCall = "render" => lastCall' = "fast_update"
       /\ lastCall' = "fast_update" =>
              /\ lastCall \in {"render", "fast_update"}
              /\ fastSince' = fastSince + 1
              /\ fastSince' <= 50
       /\ lastCall' = "slow_update" =>
              \/ lastCall = "none"
              \/ lastCall = "fast_update" /\ fastSince = 50
       /\ (lastCall = "fast_update" /\ fastSince < 50) => lastCall' = "fast_update"]_vars

\* the third slow_update of the loop has been made
C10_Witness == lastCall = "slow_update" /\ ticks = 3 /\ fastSince = 0

\* the cells of the body, as a set
BodyCells == {points[k] : k \in 1..Len(points)}

\* C11: from Game::new, after any sequence of slow_update and fast_update
\* calls with any joystick samples, no cell appears twice in the snake's body
C11_BodyCellsDistinct ==
    \A j, k \in 1..Len(points) : j # k => points[j] # points[k]

\* C12: from Game::new, in every state at which render is called (the end
\* of a slow_update), no food entry's Point is a cell of the snake's body
C12_FoodOffSnake ==
    (pc = "render" /\ fault = "none") => DOMAIN food \cap BodyCells = {}

\* C13: from Game::new, after any sequence of slow_update and fast_update
\* calls, the body has at least one cell: Snake::update has never taken its
\* early return and no unwrap (get_head among them) has failed
C13_BodyNeverEmpty ==
    /\ Len(points) >= 1
    /\ fault # "panic"
    /\ ticks >= 1 => lastMove # "None"

\* a snake of one cell has moved: pop_back emptied the deque inside
\* Snake::update and push_front refilled it
C13_Witness ==
    ticks >= 1 /\ Len(points) = 1 /\ old_tail # <<>> /\ old_tail[1] # points[1]

\* C14: from Game::new, after any sequence of slow_update and fast_update
\* calls, the snake is never longer than width x height cells and
\* Snake::update never pushes a head onto a full deque (no unwrap fails)
C14_NoCapacityExhaustion ==
    Len(points) <= width * height /\ fault # "panic"

Shown(cell) == IF cell \in DOMAIN display THEN display[cell] ELSE "BLACK"

\* render has just returned
JustRendered == lastCall = "render" /\ fault = "none"

\* C15: after every Game::render every cell of the snake's body is shown in
\* the snake's colour, also when old_tail is a body cell or a food cell
C15_BodyPainted ==
    JustRendered => \A cell \in BodyCells : Shown(cell) = "GREEN"

\* after a render, old_tail is the head: the cell was erased and drawn again
C15_Witness ==
    /\ JustRendered
    /\ old_tail # <<>>
    /\ old_tail[1] \in BodyCells
    /\ Shown(old_tail[1]) = "GREEN"

\* C17: in the main loop, after every render each food whose cell is not a
\* cell of the snake's body is shown in that food's current colour
C17_FoodShown ==
    JustRendered =>
        \A cell \in DOMAIN food \ BodyCells : Shown(cell) = food[cell].next_colour

\* C18: in the main loop, after every render each cell that is neither a
\* body cell nor the Point of a food is black
C18_NoStaleCells ==
    JustRendered =>
        \A cell \in DOMAIN display : cell \in BodyCells \cup DOMAIN food

\* after a render: a snake of two cells has moved and the cell its tail left
\* is black again
C18_Witness ==
    /\ JustRendered
    /\ Len(points) >= 2
    /\ old_tail # <<>>
    /\ old_tail[1] \notin BodyCells \cup DOMAIN food
    /\ \E d \in Direction : Stepped(old_tail[1], d) = points[Len(points)]
    /\ Shown(old_tail[1]) = "BLACK"

\* C19: a fast_update call of the main loop leaves the body, old_tail, the
\* food map (keys and every entry's colour cursor) and num_food as they were
C19_FastUpdateFrame ==
    [][(lastCall' = "fast_update" /\ fastSince' = fastSince + 1) =>
          /\ points' = points
          /\ old_tail' = old_tail
          /\ food' = food
          /\ num_food' = num_food]_vars

\* a fast_update has turned a snake of two cells while a food is on the board
C19_Witness ==
    /\ lastCall = "fast_update"
    /\ direction # lastMove
    /\ Len(points) >= 2
    /\ old_tail # <<>>
    /\ DOMAIN food # {}

====
